---- MODULE Spec2Model ----
(***************************************************************************)
(* Model of the plural and select format parts of message-format.rs:      *)
(*   src/src/icu/ast/plural_format.rs   (PluralFormat)                     *)
(*   src/src/icu/ast/select_format.rs   (SelectFormat)                     *)
(* Value, Args, Context, Message::write_message, the placeholder part and *)
(* english_cardinal_classifier live elsewhere in the crate; they are      *)
(* modelled from the specification text.                                   *)
(***************************************************************************)
EXTENDS Integers, Sequences, FiniteSets, TLC

VARIABLES plural, select, calls, mapCalls, entry, callerCtx, stack, output,
          result, selected, adjusted

vars == <<plural, select, calls, mapCalls, entry, callerCtx, stack, output,
          result, selected, adjusted>>

(* ------------------------------ bounds --------------------------------- *)

\* Width of the signed integer that stands for i64 in the model.
IntBits == 3

\* Number of configuration calls (literal/offset/zero/.../map) in a run.
MaxCalls == 2

(* --------------------------- signed integers --------------------------- *)

I64Min == -(2 ^ (IntBits - 1))

I64Max == (2 ^ (IntBits - 1)) - 1

InRange(x) == I64Min <= x /\ x <= I64Max

\* Two's complement wrap-around of a mathematical integer into the width.
WrapI64(x) == ((x - I64Min) % (2 ^ IntBits)) + I64Min

\* The two behaviours of `-` on i64: overflow checks on (debug profile,
\* panics) or off (release profile, wraps).
BuildProfiles == {"debug", "release"}

\* value - self.offset, plural_format.rs line 107.
SubI64(a, b, profile) ==
    IF InRange(a - b) THEN [panic |-> FALSE, n |-> a - b]
    ELSE IF profile = "debug" THEN [panic |-> TRUE, n |-> 0]
    ELSE [panic |-> FALSE, n |-> WrapI64(a - b)]

(* ------------------------- Option, Value, Args ------------------------- *)

None == [some |-> FALSE, n |-> 0]

Some(x) == [some |-> TRUE, n |-> x]

NoMessage == "none"

Number(x) == [tag |-> "Number", n |-> x, s |-> ""]

Str(t) == [tag |-> "Str", n |-> 0, s |-> t]

NoArgs == [some |-> FALSE, map |-> [v \in {} |-> Number(0)]]

SomeArgs(m) == [some |-> TRUE, map |-> m]

\* args.and_then(|args| args.get(name)).map(|a| a.value()) as a set:
\* empty when args is None or the variable is absent.
ArgValue(args, name) ==
    IF args.some /\ name \in DOMAIN args.map THEN {args.map[name]} ELSE {}

Context(ph) == [placeholder_value |-> ph]

ContextDefault == Context(None)

(* ------------------------------ messages ------------------------------- *)

Text(t) == [kind |-> "text", text |-> t, fmt |-> "none"]

Placeholder == [kind |-> "placeholder", text |-> "", fmt |-> "none"]

PluralPart(f) == [kind |-> "plural", text |-> "", fmt |-> f]

SelectPart(f) == [kind |-> "select", text |-> "", fmt |-> f]

\* The messages the parser hands to the format parts, by name.
MessageParts(m) ==
    CASE m = "Other"   -> <<Text("Other")>>
      [] m = "One"     -> <<Text("One")>>
      [] m = "Default" -> <<Text("Default")>>
      [] m = "Block"   -> <<Text("Block")>>
      [] m = "Hash"    -> <<Placeholder>>
      [] m = "Nest"    -> <<Placeholder, PluralPart("inner"), Placeholder,
                            SelectPart("select"), Placeholder>>

(* ---------------------------- PluralFormat ----------------------------- *)

\* english_cardinal_classifier: exactly one is One, everything else Other.
english_cardinal_classifier(n) == IF n = 1 THEN "One" ELSE "Other"

Classify(classifier, n) ==
    CASE classifier = "english_cardinal_classifier" ->
             english_cardinal_classifier(n)

\* Mutant: a new PluralFormat starts with offset 1.
PluralNew_OffsetOne(variable_name, other) ==
    [variable_name |-> variable_name,
     classifier    |-> "english_cardinal_classifier",
     literals      |-> [x \in {} |-> NoMessage],
     offset        |-> 1,
     zero          |-> NoMessage,
     one           |-> NoMessage,
     two           |-> NoMessage,
     few           |-> NoMessage,
     many          |-> NoMessage,
     other         |-> other]

PluralNew(variable_name, other) ==
    [variable_name |-> variable_name,
     classifier    |-> "english_cardinal_classifier",
     literals      |-> [x \in {} |-> NoMessage],
     offset        |-> 0,
     zero          |-> NoMessage,
     one           |-> NoMessage,
     two           |-> NoMessage,
     few           |-> NoMessage,
     many          |-> NoMessage,
     other         |-> other]

\* Mutant: an insert for a key that is present keeps the earlier message.
HashMapInsert_KeepFirst(map, k, v) ==
    [x \in (DOMAIN map) \cup {k} |-> IF x \in DOMAIN map THEN map[x] ELSE v]

\* HashMap::insert: a later insert for the same key replaces the earlier.
HashMapInsert(map, k, v) ==
    [x \in (DOMAIN map) \cup {k} |-> IF x = k THEN v ELSE map[x]]

UnwrapOr(opt, dflt) == IF opt = NoMessage THEN dflt ELSE opt

\* Mutant: the category is looked at first, and a literal only when the
\* category has no message of its own.
PluralLookupMessage_CategoryFirst(self, offset_value) ==
    LET category == Classify(self.classifier, offset_value)
        field == CASE category = "Zero"  -> self.zero
                   [] category = "One"   -> self.one
                   [] category = "Two"   -> self.two
                   [] category = "Few"   -> self.few
                   [] category = "Many"  -> self.many
                   [] category = "Other" -> NoMessage
    IN IF field # NoMessage THEN field
       ELSE IF offset_value \in DOMAIN self.literals
            THEN self.literals[offset_value]
            ELSE self.other

\* PluralFormat::lookup_message.
PluralLookupMessage(self, offset_value) ==
    IF offset_value \in DOMAIN self.literals
    THEN self.literals[offset_value]
    ELSE LET category == Classify(self.classifier, offset_value)
         IN CASE category = "Zero"  -> UnwrapOr(self.zero, self.other)
              [] category = "One"   -> UnwrapOr(self.one, self.other)
              [] category = "Two"   -> UnwrapOr(self.two, self.other)
              [] category = "Few"   -> UnwrapOr(self.few, self.other)
              [] category = "Many"  -> UnwrapOr(self.many, self.other)
              [] category = "Other" -> self.other

\* What an apply_format leaves when it returns before write_message:
\* Err(fmt::Error {}) or the panic of the subtraction.  Nothing is selected
\* and the caller's Context is as it was.
Failure(status, ctx, args) ==
    [status |-> status, message |-> NoMessage, offset_value |-> None,
     ctx |-> ctx, args |-> args, caller_ctx |-> ctx]

\* Mutant: the placeholder is written into the caller's Context instead of
\* into a clone of it.
PluralRender_SharedContext(self, ctx, args, offset_value) ==
    [status       |-> "render",
     message      |-> PluralLookupMessage(self, offset_value),
     offset_value |-> Some(offset_value),
     ctx          |-> [ctx EXCEPT !.placeholder_value = Some(offset_value)],
     args         |-> args,
     caller_ctx   |-> [ctx EXCEPT !.placeholder_value = Some(offset_value)]]

\* plural_format.rs lines 108-110: the message looked up for offset_value
\* is rendered with a clone of ctx whose placeholder_value is
\* Some(offset_value), and with the same args.  caller_ctx is the caller's
\* Context after the call: ctx is a shared borrow, so it is unchanged.
PluralRender(self, ctx, args, offset_value) ==
    [status       |-> "render",
     message      |-> PluralLookupMessage(self, offset_value),
     offset_value |-> Some(offset_value),
     ctx          |-> [ctx EXCEPT !.placeholder_value = Some(offset_value)],
     args         |-> args,
     caller_ctx   |-> ctx]

\* Mutant: a value that is not a Number is taken as the number 0.
PluralApplyFormat_Coerce(self, ctx, args, profile) ==
    LET arg == ArgValue(args, self.variable_name)
    IN IF arg # {}
       THEN LET a     == CHOOSE x \in arg : TRUE
                value == IF a.tag = "Number" THEN a.n ELSE 0
                sub   == SubI64(value, self.offset, profile)
            IN IF sub.panic THEN Failure("panic", ctx, args)
               ELSE PluralRender(self, ctx, args, sub.n)
       ELSE Failure("Err", ctx, args)

\* The outcome of PluralFormat::apply_format up to the call of
\* write_message: an error, a panic of the subtraction, or the sub-message
\* to render with the Context and Args handed to it.
PluralApplyFormat(self, ctx, args, profile) ==
    LET arg == ArgValue(args, self.variable_name)
    IN IF \E a \in arg : a.tag = "Number"
       THEN LET value == (CHOOSE a \in arg : TRUE).n
                sub   == SubI64(value, self.offset, profile)
            IN IF sub.panic THEN Failure("panic", ctx, args)
               ELSE PluralRender(self, ctx, args, sub.n)
       ELSE Failure("Err", ctx, args)

(* ---------------------------- SelectFormat ----------------------------- *)

SelectNew(variable_name, default) ==
    [variable_name |-> variable_name,
     mappings      |-> [x \in {} |-> NoMessage],
     default       |-> default]

SelectLookupMessage(self, value) ==
    IF value \in DOMAIN self.mappings THEN self.mappings[value]
    ELSE self.default

\* select_format.rs lines 53-54: the message looked up for value is
\* rendered with the ctx and the args the part was given.
SelectRender(self, ctx, args, value) ==
    [status       |-> "render",
     message      |-> SelectLookupMessage(self, value),
     offset_value |-> None,
     ctx          |-> ctx,
     args         |-> args,
     caller_ctx   |-> ctx]

\* Mutant: the sub-message is rendered with a fresh Context::default().
SelectApplyFormat_FreshContext(self, ctx, args) ==
    LET arg == ArgValue(args, self.variable_name)
    IN IF \E a \in arg : a.tag = "Str"
       THEN [SelectRender(self, ctx, args, (CHOOSE a \in arg : TRUE).s)
               EXCEPT !.ctx = ContextDefault]
       ELSE Failure("Err", ctx, args)

\* Mutant: a variable that is not found renders the default message.
SelectApplyFormat_AbsentDefault(self, ctx, args) ==
    LET arg == ArgValue(args, self.variable_name)
    IN IF \E a \in arg : a.tag = "Str"
       THEN SelectRender(self, ctx, args, (CHOOSE a \in arg : TRUE).s)
       ELSE IF arg = {}
            THEN [SelectRender(self, ctx, args, "")
                    EXCEPT !.message = self.default]
            ELSE Failure("Err", ctx, args)

SelectApplyFormat(self, ctx, args) ==
    LET arg == ArgValue(args, self.variable_name)
    IN IF \E a \in arg : a.tag = "Str"
       THEN SelectRender(self, ctx, args, (CHOOSE a \in arg : TRUE).s)
       ELSE Failure("Err", ctx, args)

(* ------------------------------- inputs -------------------------------- *)

VarNames == {"count", "type"}

\* Numeric arguments: both ends of the range and the values around one.
ArgNumbers == {I64Min, 0, 1, 2, I64Max}

OffsetValues == {I64Min, -1, 1}

LiteralValues == {0, 1, I64Max}

\* Keys given to map, and the strings rendered against them: a key, the
\* empty string, and a string one character short of a key.
KeyStrings == {"block", "span"}

ArgStrings == {"block", "span", "", "bloc"}

PluralMessages == {"One", "Hash", "Nest"}

CategoryMessages == {"One", "Hash"}

SelectMessages == {"Block", "Hash"}

ArgsOf(S, f) == SomeArgs([v \in S |-> f[v]])

ArgsSet ==
    {NoArgs, SomeArgs([v \in {} |-> Number(0)])}
    \cup {SomeArgs([v \in {"count"} |-> Number(n)]) : n \in ArgNumbers}
    \cup {SomeArgs([v \in {"count"} |-> Str("block")])}
    \cup {SomeArgs([v \in {"type"} |-> Str(t)]) : t \in ArgStrings}
    \cup {SomeArgs([v \in {"type"} |-> Number(1)])}
    \cup {SomeArgs([v \in VarNames |->
                       IF v = "count" THEN Number(n) ELSE Str(t)])
            : n \in ArgNumbers, t \in {"block", ""}}

ContextSet == {ContextDefault, Context(Some(2))}

(* ----------------------- the parts of the message ---------------------- *)

\* The plural part nested in message "Nest": a fixed PluralFormat over the
\* same variable, built as the parser builds one: new, offset, one.
InnerPlural ==
    [PluralNew("count", "Hash") EXCEPT !.offset = 1, !.one = "One"]

PluralOf(f) == IF f = "plural" THEN plural ELSE InnerPlural

SelectOf(f) == select

Frame(message, ctx, args, by) ==
    [message |-> message, pc |-> 1, ctx |-> ctx, args |-> args, by |-> by]

NoEntry == [part |-> "none", ctx |-> ContextDefault, args |-> NoArgs]

(* -------------------------------- state -------------------------------- *)

Init ==
    /\ plural = PluralNew("count", "Other")
    /\ select = SelectNew("type", "Default")
    /\ calls = 0
    /\ mapCalls = <<>>
    /\ entry = NoEntry
    /\ callerCtx = ContextDefault
    /\ stack = <<>>
    /\ output = <<>>
    /\ result = "idle"
    /\ selected = NoMessage
    /\ adjusted = None

render_vars == <<entry, callerCtx, stack, output, result, selected, adjusted>>

CanConfigure == result = "idle" /\ calls < MaxCalls

(* ---------------------- configuration (builder) calls ------------------ *)

literal(n, message) ==
    /\ CanConfigure
    /\ plural' = [plural EXCEPT
                    !.literals = HashMapInsert(plural.literals, n, message)]
    /\ calls' = calls + 1
    /\ UNCHANGED <<select, mapCalls, render_vars>>

offset(n) ==
    /\ CanConfigure
    /\ plural' = [plural EXCEPT !.offset = n]
    /\ calls' = calls + 1
    /\ UNCHANGED <<select, mapCalls, render_vars>>

zero(message) ==
    /\ CanConfigure
    /\ plural' = [plural EXCEPT !.zero = message]
    /\ calls' = calls + 1
    /\ UNCHANGED <<select, mapCalls, render_vars>>

one(message) ==
    /\ CanConfigure
    /\ plural' = [plural EXCEPT !.one = message]
    /\ calls' = calls + 1
    /\ UNCHANGED <<select, mapCalls, render_vars>>

two(message) ==
    /\ CanConfigure
    /\ plural' = [plural EXCEPT !.two = message]
    /\ calls' = calls + 1
    /\ UNCHANGED <<select, mapCalls, render_vars>>

few(message) ==
    /\ CanConfigure
    /\ plural' = [plural EXCEPT !.few = message]
    /\ calls' = calls + 1
    /\ UNCHANGED <<select, mapCalls, render_vars>>

many(message) ==
    /\ CanConfigure
    /\ plural' = [plural EXCEPT !.many = message]
    /\ calls' = calls + 1
    /\ UNCHANGED <<select, mapCalls, render_vars>>

map(value, message) ==
    /\ CanConfigure
    /\ select' = [select EXCEPT
                    !.mappings = HashMapInsert(select.mappings, value, message)]
    /\ mapCalls' = Append(mapCalls, <<value, message>>)
    /\ calls' = calls + 1
    /\ UNCHANGED <<plural, render_vars>>

(* ------------------------------ rendering ------------------------------ *)

config_vars == <<plural, select, calls, mapCalls>>

\* What a call of apply_format leaves behind when it is made from the
\* frames `below` (empty for the caller's own call): r is the outcome of
\* the part's apply_format up to write_message.
Enter(r, below, by) ==
    /\ stack' = IF r.status = "render"
                THEN Append(below, Frame(r.message, r.ctx, r.args, by))
                ELSE <<>>
    /\ result' = IF r.status = "render" THEN "running" ELSE r.status

\* fmt.apply_format(&ctx, &mut output, args) on the PluralFormat.
PluralFormat_apply_format(ctx, args, profile) ==
    /\ result = "idle"
    /\ LET r == PluralApplyFormat(plural, ctx, args, profile)
       IN /\ Enter(r, <<>>, "plural")
          /\ callerCtx' = r.caller_ctx
          /\ selected' = r.message
          /\ adjusted' = r.offset_value
    /\ entry' = [part |-> "plural", ctx |-> ctx, args |-> args]
    /\ output' = <<>>
    /\ UNCHANGED config_vars

\* fmt.apply_format(&ctx, &mut output, args) on the SelectFormat.
SelectFormat_apply_format(ctx, args) ==
    /\ result = "idle"
    /\ LET r == SelectApplyFormat(select, ctx, args)
       IN /\ Enter(r, <<>>, "select")
          /\ callerCtx' = r.caller_ctx
          /\ selected' = r.message
          /\ adjusted' = r.offset_value
    /\ entry' = [part |-> "select", ctx |-> ctx, args |-> args]
    /\ output' = <<>>
    /\ UNCHANGED config_vars

Top == stack[Len(stack)]

Running == result = "running" /\ stack # <<>>

AtPart(kind) ==
    /\ Running
    /\ Top.pc <= Len(MessageParts(Top.message))
    /\ MessageParts(Top.message)[Top.pc].kind = kind

CurrentPart == MessageParts(Top.message)[Top.pc]

Advance(frames) == [frames EXCEPT ![Len(frames)].pc = @ + 1]

\* Message::write_message reaches a literal text part.
WriteText ==
    /\ AtPart("text")
    /\ output' = Append(output, [kind |-> "text", text |-> CurrentPart.text,
                                 value |-> None])
    /\ stack' = Advance(stack)
    /\ UNCHANGED <<config_vars, entry, callerCtx, result, selected, adjusted>>

\* Message::write_message reaches a placeholder part: it shows the
\* placeholder value of the Context it is rendered with.
WritePlaceholder ==
    /\ AtPart("placeholder")
    /\ output' = Append(output, [kind |-> "placeholder", text |-> "",
                                 value |-> Top.ctx.placeholder_value])
    /\ stack' = Advance(stack)
    /\ UNCHANGED <<config_vars, entry, callerCtx, result, selected, adjusted>>

\* Message::write_message reaches a nested plural part.
WritePlural(profile) ==
    /\ AtPart("plural")
    /\ LET r == PluralApplyFormat(PluralOf(CurrentPart.fmt), Top.ctx,
                                  Top.args, profile)
       IN Enter(r, [stack EXCEPT ![Len(stack)].ctx = r.caller_ctx],
                CurrentPart.fmt)
    /\ UNCHANGED <<config_vars, entry, callerCtx, output, selected, adjusted>>

\* Message::write_message reaches a nested select part.
WriteSelect ==
    /\ AtPart("select")
    /\ LET r == SelectApplyFormat(SelectOf(CurrentPart.fmt), Top.ctx,
                                  Top.args)
       IN Enter(r, [stack EXCEPT ![Len(stack)].ctx = r.caller_ctx],
                CurrentPart.fmt)
    /\ UNCHANGED <<config_vars, entry, callerCtx, output, selected, adjusted>>

\* write_message has rendered its last part: the apply_format that called
\* it returns Ok(()), and the message that holds that part goes on.
WriteDone ==
    /\ Running
    /\ Top.pc > Len(MessageParts(Top.message))
    /\ LET below == SubSeq(stack, 1, Len(stack) - 1)
       IN /\ stack' = IF below = <<>> THEN <<>> ELSE Advance(below)
          /\ result' = IF below = <<>> THEN "Ok" ELSE "running"
    /\ UNCHANGED <<config_vars, entry, callerCtx, output, selected, adjusted>>

\* The caller is done with the result and the output of a call.
Drop ==
    /\ result \in {"Ok", "Err"}
    /\ entry' = NoEntry
    /\ callerCtx' = ContextDefault
    /\ stack' = <<>>
    /\ output' = <<>>
    /\ result' = "idle"
    /\ selected' = NoMessage
    /\ adjusted' = None
    /\ UNCHANGED config_vars

Next ==
    \/ \E n \in LiteralValues, m \in PluralMessages : literal(n, m)
    \/ \E n \in OffsetValues : offset(n)
    \/ \E m \in CategoryMessages : zero(m)
    \/ \E m \in PluralMessages : one(m)
    \/ \E m \in CategoryMessages : two(m)
    \/ \E m \in CategoryMessages : few(m)
    \/ \E m \in CategoryMessages : many(m)
    \/ \E k \in KeyStrings, m \in SelectMessages : map(k, m)
    \/ \E c \in ContextSet, a \in ArgsSet, p \in BuildProfiles :
          PluralFormat_apply_format(c, a, p)
    \/ \E c \in ContextSet, a \in ArgsSet : SelectFormat_apply_format(c, a)
    \/ WriteText
    \/ WritePlaceholder
    \/ \E p \in BuildProfiles : WritePlural(p)
    \/ WriteSelect
    \/ WriteDone
    \/ Drop

Spec == Init /\ [][Next]_vars

(* ----------------------- vocabulary of the claims ---------------------- *)

\* The value of the part's variable in the Args of the caller's call.
EntryValue(name) == ArgValue(entry.args, name)

EntryHas(name, tag) == \E a \in EntryValue(name) : a.tag = tag

\* The caller applied the PluralFormat to a numeric argument.
PluralOnNumber ==
    entry.part = "plural" /\ EntryHas(plural.variable_name, "Number")

\* The caller applied the SelectFormat to a string argument.
SelectOnStr ==
    entry.part = "select" /\ EntryHas(select.variable_name, "Str")

\* The numeric argument v, and v - offset as integers (not as i64).
EntryV == (CHOOSE a \in EntryValue(plural.variable_name) : TRUE).n

EntryAdjusted == EntryV - plural.offset

EntryS == (CHOOSE a \in EntryValue(select.variable_name) : TRUE).s

\* The sub-message configured for a category, `other` when it is unset.
CategoryMessage(category) ==
    LET field == [Zero |-> plural.zero, One |-> plural.one,
                  Two |-> plural.two, Few |-> plural.few,
                  Many |-> plural.many, Other |-> NoMessage][category]
    IN IF field = NoMessage THEN plural.other ELSE field

\* The message of the most recent map call for key s, `default` if none.
LastMapped(s) ==
    LET hits == {i \in 1..Len(mapCalls) : mapCalls[i][1] = s}
    IN IF hits = {} THEN select.default
       ELSE mapCalls[CHOOSE i \in hits : \A j \in hits : j <= i][2]

TextToken(t) == [kind |-> "text", text |-> t, value |-> None]

\* The Context and the Args of the caller of the apply_format that pushed
\* frame i.
CallerCtxOf(i) == IF i = 1 THEN entry.ctx ELSE stack[i - 1].ctx

CallerArgsOf(i) == IF i = 1 THEN entry.args ELSE stack[i - 1].args

FrameNumber(i) ==
    (CHOOSE a \in ArgValue(stack[i].args,
                           PluralOf(stack[i].by).variable_name) : TRUE).n

(* -------------------------------- claims ------------------------------- *)

\* C1: when a literal override is registered for v - offset, rendering the
\* PluralFormat with the numeric argument v selects that literal's
\* sub-message, whatever the category of v - offset and whether or not the
\* category has a sub-message; the literal is matched against v - offset.
C1_LiteralOverride ==
    (PluralOnNumber /\ EntryAdjusted \in DOMAIN plural.literals)
        => selected = plural.literals[EntryAdjusted]

\* C1 witness: offset is not zero, the raw v has no literal, v - offset has
\* one and falls in category One, and the literal's message was rendered.
C1_Witness ==
    /\ PluralOnNumber
    /\ result = "Ok"
    /\ plural.offset # 0
    /\ EntryV \notin DOMAIN plural.literals
    /\ EntryAdjusted \in DOMAIN plural.literals
    /\ english_cardinal_classifier(EntryAdjusted) = "One"
    /\ selected = plural.literals[EntryAdjusted]
    /\ selected # plural.other

\* C2: when no literal override is registered for v - offset, the selected
\* sub-message is the one of category classifier(v - offset) if set, else
\* `other`; selection always produces some sub-message.
C2_CategoryOrOther ==
    (PluralOnNumber /\ EntryAdjusted \notin DOMAIN plural.literals)
        => selected =
              CategoryMessage(Classify(plural.classifier, EntryAdjusted))

\* C3: rendering the SelectFormat with the string s selects the message of
\* the most recent map call whose key equals s, and `default` when no key
\* equals s.
C3_SelectExactMatch ==
    SelectOnStr
        => /\ result \in {"running", "Ok"}
           /\ selected = LastMapped(EntryS)
           /\ (EntryS \notin {mapCalls[i][1] : i \in 1..Len(mapCalls)}
                 => selected = select.default)

\* C3 witness: two map calls for the same key with different messages, and
\* a rendering of that key that chose the second.
C3_Witness ==
    /\ SelectOnStr
    /\ result = "Ok"
    /\ Len(mapCalls) = 2
    /\ mapCalls[1][1] = EntryS
    /\ mapCalls[2][1] = EntryS
    /\ mapCalls[1][2] # mapCalls[2][2]
    /\ selected = mapCalls[2][2]

\* C4: PluralFormat.apply_format fails when args is None, the variable is
\* absent or its value is not Number, and SelectFormat.apply_format fails
\* when args is None, the variable is absent or its value is not Str; then
\* no sub-message is selected or rendered and nothing is written.
C4_ArgumentCheck ==
    (\/ entry.part = "plural" /\ ~EntryHas(plural.variable_name, "Number")
     \/ entry.part = "select" /\ ~EntryHas(select.variable_name, "Str"))
        => /\ result = "Err"
           /\ selected = NoMessage
           /\ stack = <<>>
           /\ output = <<>>

\* C4 witness: the PluralFormat was applied to a Str value and failed.
C4_Witness ==
    /\ entry.part = "plural"
    /\ EntryHas(plural.variable_name, "Str")
    /\ result = "Err"

\* C5 (as claimed): when the SelectFormat's variable is not found in Args,
\* the `default` sub-message is used.
C5_AbsentUsesDefault ==
    (entry.part = "select" /\ EntryValue(select.variable_name) = {})
        => selected = select.default

\* C5 (amended): when the SelectFormat's variable is not found in Args the
\* rendering fails, no sub-message (not `default` either) is selected and
\* nothing is written; `default` is used for a Str value that is no key.
C5_AbsentIsError ==
    /\ (entry.part = "select" /\ EntryValue(select.variable_name) = {})
          => /\ result = "Err"
             /\ selected = NoMessage
             /\ output = <<>>
    /\ (SelectOnStr /\ EntryS \notin DOMAIN select.mappings)
          => selected = select.default

\* C5 witness: Args is there, a key is mapped, the variable is not found,
\* and the call failed.
C5_Witness ==
    /\ entry.part = "select"
    /\ entry.args.some
    /\ select.variable_name \notin DOMAIN entry.args.map
    /\ DOMAIN select.mappings # {}
    /\ result = "Err"

\* C6: whenever a PluralFormat resolves a numeric argument v, its selected
\* sub-message is rendered with a Context whose placeholder value is
\* Some(v - offset) and with the Args the part received.
C6_PlaceholderIsAdjusted ==
    \A i \in 1..Len(stack) :
        stack[i].by \in {"plural", "inner"}
            => /\ stack[i].ctx.placeholder_value =
                    Some(FrameNumber(i) - PluralOf(stack[i].by).offset)
               /\ stack[i].args = CallerArgsOf(i)

\* C7: after new(variable, other) and only one(message), rendering with v
\* selects and outputs the `one` sub-message when v = 1 and the `other`
\* sub-message for every other v.
C7_EnglishDefault ==
    (PluralOnNumber /\ calls = 1 /\ plural.one # NoMessage)
        => /\ selected = IF EntryV = 1 THEN plural.one ELSE plural.other
           /\ (result = "Ok" /\ plural.one = "One")
                 => output = IF EntryV = 1 THEN <<TextToken("One")>>
                              ELSE <<TextToken("Other")>>

\* C7 witness: other = "Other", one = "One", count = 1 rendered "One".
C7_Witness ==
    /\ PluralOnNumber
    /\ calls = 1
    /\ plural.one = "One"
    /\ plural.other = "Other"
    /\ EntryV = 1
    /\ result = "Ok"
    /\ output = <<TextToken("One")>>

\* C8: the sub-message a SelectFormat selects is rendered with exactly the
\* Context and the Args the SelectFormat was given, so a placeholder in it
\* shows the placeholder value of the incoming Context.
C8_SelectKeepsContext ==
    /\ \A i \in 1..Len(stack) :
          stack[i].by = "select"
              => /\ stack[i].ctx = CallerCtxOf(i)
                 /\ stack[i].args = CallerArgsOf(i)
    /\ (SelectOnStr /\ result = "Ok" /\ selected = "Hash")
          => output = <<[kind |-> "placeholder", text |-> "",
                         value |-> entry.ctx.placeholder_value]>>

\* C8 witness: a select nested in a plural branch has written the adjusted
\* number of the enclosing plural, which the caller's Context did not hold.
C8_Witness ==
    /\ PluralOnNumber
    /\ Len(stack) = 2
    /\ stack[1].by = "plural"
    /\ stack[2].by = "select"
    /\ stack[2].message = "Hash"
    /\ stack[2].pc = 2
    /\ output[Len(output)].kind = "placeholder"
    /\ output[Len(output)].value = Some(EntryAdjusted)
    /\ entry.ctx.placeholder_value # Some(EntryAdjusted)

\* C9: an apply_format never modifies the Context it receives: the caller's
\* Context is what it was when the call was made, and the Context of every
\* message being rendered stays the same while parts nested in it render.
C9_ContextNotModified ==
    [][/\ result' # "idle" => callerCtx' = entry'.ctx
       /\ \A i \in 1..Len(stack) :
             i <= Len(stack') => stack'[i].ctx = stack[i].ctx]_vars

\* C9 witness: in "Nest" the placeholder after the nested plural part shows
\* the same number as the one before it, and the nested plural showed its
\* own adjusted number in between.
C9_Witness ==
    /\ PluralOnNumber
    /\ Len(stack) = 1
    /\ stack[1].message = "Nest"
    /\ Len(output) = 3
    /\ output[1].kind = "placeholder"
    /\ output[2].kind = "placeholder"
    /\ output[3] = output[1]
    /\ output[2] # output[1]
    /\ output[1].value = Some(EntryAdjusted)
    /\ callerCtx = entry.ctx
    /\ entry.ctx.placeholder_value # Some(EntryAdjusted)

\* C10: for every numeric argument v and every offset, apply_format
\* computes v - offset as a value of the integer range, without overflow,
\* wrap-around or abort, so that every outcome is an ordinary Ok or Err.
C10_NoOverflow ==
    PluralOnNumber
        => /\ result # "panic"
           /\ adjusted = Some(EntryAdjusted)

====
